---- MODULE Spec2Model ----
(***************************************************************************)
(* Constrained Secret Santa matching (transversal.py).                     *)
(*                                                                         *)
(*   hopcroft_karp_bipartite_matching  - the layered augmenting-path       *)
(*                                       solver (bfs / dfs / outer loop)   *)
(*   random_secret_santa_matching      - constraint building, the          *)
(*                                       shuffle-and-retry loop, the       *)
(*                                       candidate list and the final pick *)
(*   validate_people                   - the precondition on the input     *)
(*                                                                         *)
(* Four specifications share the variables below:                          *)
(*   Spec      one call of random_secret_santa_matching, RANDOM_SEED None  *)
(*   SpecBuild validate_people and the constraint building of lines        *)
(*             157-164 on raw people.json contents                         *)
(*   SpecHK    one call of the solver on an arbitrary eligibility map,     *)
(*             one step per layering phase and per augmentation phase      *)
(*   SpecSeed  two calls with the same fixed RANDOM_SEED                   *)
(***************************************************************************)
EXTENDS Integers, Sequences, FiniteSets, TLC

VARIABLES
    \* --- input and settings of random_secret_santa_matching
    people,            \* full_name -> the person's "allowed" field
    NUM_REPETITIONS,
    STOP_ON_FIRST,
    RANDOM_SEED,
    \* --- random_secret_santa_matching
    pc,                \* position in the call
    allowed_base,
    attempt,           \* iterations of the for loop started so far
    m,                 \* the solver's last return value
    matchings,
    seen,
    outcome,           \* what the call gave back to its caller
    calls,             \* number of solver invocations so far
    \* --- hopcroft_karp_bipartite_matching
    allowed,           \* its argument: giver -> list of receivers
    U_order,           \* its argument: the giver order
    hk_pc,
    pair_U,
    pair_V,
    dist,
    matching,
    phases,            \* layering phases that returned True so far
    \* --- the two seeded calls of SpecSeed
    out                \* per call made: allowed_base as built, and the outcome

engineVars == <<people, NUM_REPETITIONS, STOP_ON_FIRST, RANDOM_SEED, pc,
                allowed_base, attempt, matchings, seen, outcome, calls, m>>
hkVars     == <<allowed, U_order, hk_pc, pair_U, pair_V, dist, matching, phases>>
seedVars   == <<out>>
vars       == <<engineVars, hkVars, seedVars>>

----------------------------------------------------------------------------
(* Bounds and the participant universe *)

\* Full names of the participants, listed in their sort order (str <).
Names == <<"A", "B", "C">>

\* Longest explicit "allowed" list of a person in people.json.
MaxAllowLen == 2

\* Largest value of the NUM_REPETITIONS knob.
MaxReps == 2

\* Largest value of the RANDOM_SEED knob.
MaxSeed == 1

----------------------------------------------------------------------------
(* Python values *)

\* None, as pair_U / pair_V value and as dict key of dist
NIL == "None"

\* float("inf")
INF == 99

AllNames == {Names[i] : i \in 1..Len(Names)}

Range(s) == {s[i] : i \in 1..Len(s)}

\* s[1..k], k <= MaxAllowLen + 1
SeqsUpTo(S, k) == UNION {[1..n -> S] : n \in 0..k}

\* all orderings of a finite set, as lists
Orderings(S) == {s \in [1..Cardinality(S) -> S] : Range(s) = S}

\* position of a name in the sort order of str
Rank(n) == CHOOSE i \in 1..Len(Names) : Names[i] = n

\* d + 1 on floats: inf + 1 == inf
Plus1(d) == IF d = INF THEN INF ELSE d + 1

EmptyDict == [x \in {} |-> NIL]

----------------------------------------------------------------------------
(* hopcroft_karp_bipartite_matching *)

\* V = union of all allowed receivers
Vset(alw) == UNION {Range(alw[u]) : u \in DOMAIN alw}

\* pair_U = {u: None for u in U};  pair_V = {v: None for v in V}
InitPairU(U) == [u \in Range(U) |-> NIL]
InitPairV(alw) == [v \in Vset(alw) |-> NIL]

\* bfs(), lines 96-102: distances of the roots and the initial queue
RECURSIVE BfsSeed(_, _, _, _, _)
BfsSeed(U, pU, i, d, q) ==
    IF i > Len(U) THEN [dist |-> [d EXCEPT ![NIL] = INF], q |-> q]
    ELSE LET u == U[i] IN
         IF pU[u] = NIL
         THEN BfsSeed(U, pU, i + 1, [d EXCEPT ![u] = 0], Append(q, u))
         ELSE BfsSeed(U, pU, i + 1, [d EXCEPT ![u] = INF], q)

\* bfs(), lines 107-111: for v in allowed[u], from the i-th entry on
RECURSIVE BfsScan(_, _, _, _, _, _)
\* Faulty variant of BfsScan: the layering never crosses a matched edge (only a free
\* receiver is given a layer), so no re-routing path is ever found.
BfsScan_FreeOnly(alw, pV, u, i, d, q) ==
    IF i > Len(alw[u]) THEN [dist |-> d, q |-> q]
    ELSE LET v  == alw[u][i]
             pu == pV[v]
         IN  IF pu = NIL /\ d[pu] = INF
             THEN BfsScan(alw, pV, u, i + 1,
                          [d EXCEPT ![pu] = Plus1(d[u])], Append(q, pu))
             ELSE BfsScan(alw, pV, u, i + 1, d, q)

BfsScan(alw, pV, u, i, d, q) ==
    IF i > Len(alw[u]) THEN [dist |-> d, q |-> q]
    ELSE LET v  == alw[u][i]
             pu == pV[v]
         IN  IF d[pu] = INF
             THEN BfsScan(alw, pV, u, i + 1,
                          [d EXCEPT ![pu] = Plus1(d[u])], Append(q, pu))
             ELSE BfsScan(alw, pV, u, i + 1, d, q)

\* bfs(), lines 104-111: while q
RECURSIVE BfsLoop(_, _, _, _)
BfsLoop(alw, pV, d, q) ==
    IF q = <<>> THEN d
    ELSE LET u == Head(q) IN
         IF d[u] < d[NIL]
         THEN LET r == BfsScan(alw, pV, u, 1, d, Tail(q))
              IN  BfsLoop(alw, pV, r.dist, r.q)
         ELSE BfsLoop(alw, pV, d, Tail(q))

\* bfs(): the new dist; its return value is dist[NIL] != inf
bfs(alw, U, pU, pV) ==
    LET d0 == [x \in Range(U) \cup {NIL} |-> INF]
        s  == BfsSeed(U, pU, 1, d0, <<>>)
    IN  BfsLoop(alw, pV, s.dist, s.q)

\* dfs(u) on the state st = [pair_U, pair_V, dist]; DfsScan is its for loop
\* from the i-th entry of allowed[u] on.  The result carries the return value.
RECURSIVE dfs(_, _, _)
RECURSIVE DfsScan(_, _, _, _)
\* Faulty variant of DfsScan: the search takes a free receiver of the next layer only
\* and never recurses into the giver a receiver is matched to.
DfsScan_NoReroute(alw, u, i, st) ==
    IF i > Len(alw[u])
    THEN [ok |-> FALSE, pair_U |-> st.pair_U, pair_V |-> st.pair_V,
          dist |-> [st.dist EXCEPT ![u] = INF]]
    ELSE LET v  == alw[u][i]
             pu == st.pair_V[v]
         IN  IF pu = NIL /\ st.dist[pu] = Plus1(st.dist[u])
             THEN [ok |-> TRUE,
                   pair_U |-> [st.pair_U EXCEPT ![u] = v],
                   pair_V |-> [st.pair_V EXCEPT ![v] = u],
                   dist |-> st.dist]
             ELSE DfsScan(alw, u, i + 1, st)

DfsScan(alw, u, i, st) ==
    IF i > Len(alw[u])
    THEN [ok |-> FALSE, pair_U |-> st.pair_U, pair_V |-> st.pair_V,
          dist |-> [st.dist EXCEPT ![u] = INF]]
    ELSE LET v  == alw[u][i]
             pu == st.pair_V[v]
         IN  IF st.dist[pu] = Plus1(st.dist[u])
             THEN LET r == dfs(alw, pu, st) IN
                  IF r.ok
                  THEN [ok |-> TRUE,
                        pair_U |-> [r.pair_U EXCEPT ![u] = v],
                        pair_V |-> [r.pair_V EXCEPT ![v] = u],
                        dist |-> r.dist]
                  ELSE DfsScan(alw, u, i + 1, r)
             ELSE DfsScan(alw, u, i + 1, st)

dfs(alw, u, st) ==
    IF u # NIL
    THEN DfsScan(alw, u, 1, st)
    ELSE [ok |-> TRUE, pair_U |-> st.pair_U, pair_V |-> st.pair_V,
          dist |-> st.dist]

\* the body of "while bfs():", lines 129-132, from the i-th giver of U on;
\* st = [pair_U, pair_V, dist, matching]
RECURSIVE Augment(_, _, _, _)
Augment(alw, U, i, st) ==
    IF i > Len(U) THEN st
    ELSE LET u == U[i] IN
         IF st.pair_U[u] = NIL
         THEN LET r == dfs(alw, u, st) IN
              Augment(alw, U, i + 1,
                      [pair_U |-> r.pair_U, pair_V |-> r.pair_V,
                       dist |-> r.dist,
                       matching |-> IF r.ok THEN st.matching + 1
                                            ELSE st.matching])
         ELSE Augment(alw, U, i + 1, st)

\* dict.items() of pair_U: the pairs in insertion order, which is U
Items(pU, U) == [i \in 1..Len(U) |-> <<U[i], pU[U[i]]>>]

\* Faulty variant of HKReturn: off by one in the size test, so a matching that leaves
\* one giver unmatched is returned.
HKReturn_OffByOne(U, st) ==
    IF st.matching >= Len(U) - 1
    THEN [ok |-> TRUE, items |-> Items(st.pair_U, U)]
    ELSE [ok |-> FALSE, items |-> <<>>]

\* lines 134-137: pair_U when matching == len(U), else None (ok = FALSE)
HKReturn(U, st) ==
    IF st.matching = Len(U)
    THEN [ok |-> TRUE, items |-> Items(st.pair_U, U)]
    ELSE [ok |-> FALSE, items |-> <<>>]

\* lines 127-137: the outer loop
RECURSIVE HKLoop(_, _, _)
HKLoop(alw, U, st) ==
    LET d == bfs(alw, U, st.pair_U, st.pair_V) IN
    IF d[NIL] # INF
    THEN HKLoop(alw, U, Augment(alw, U, 1, [st EXCEPT !.dist = d]))
    ELSE HKReturn(U, [st EXCEPT !.dist = d])

hopcroft_karp_bipartite_matching(alw, U) ==
    HKLoop(alw, U, [pair_U |-> InitPairU(U), pair_V |-> InitPairV(alw),
                    dist |-> EmptyDict, matching |-> 0])

----------------------------------------------------------------------------
(* validate_people *)

\* A name that is no participant (for the "non-existing recipient" check).
Stranger == "Z"

absent == [has |-> FALSE, list |-> <<>>]

\* The "allowed" field of a person of people.json as loaded, before validation:
\* absent, or a list of at most MaxAllowLen names.
AllowField ==
    {absent} \cup
    {[has |-> TRUE, list |-> l] :
        l \in SeqsUpTo(AllNames \cup {Stranger}, MaxAllowLen)}

\* p.get("allowed", [])
GetAllowed(person) == IF person.has THEN person.list ELSE <<>>

\* validate_people returns (does not raise).  The full names are the keys of
\* ppl, so the duplicate-name check of lines 42-44 passes by construction.
validate_people(ppl) ==
    \A name \in DOMAIN ppl :
        \A k \in 1..Len(GetAllowed(ppl[name])) :
            LET target == GetAllowed(ppl[name])[k] IN
            /\ target \in DOMAIN ppl
            /\ target # name

----------------------------------------------------------------------------
(* random.seed, random.shuffle, random.choice and sorted *)

Swap(x, i, j) == [x EXCEPT ![i] = x[j], ![j] = x[i]]

\* random.shuffle(x): for i in reversed(range(1, len(x))): j = randbelow(i + 1);
\* x[i], x[j] = x[j], x[i].  js lists the draws, 1-based, first draw first.
RECURSIVE FisherYates(_, _, _)
FisherYates(x, i, js) ==
    IF i < 2 THEN x
    ELSE FisherYates(Swap(x, i, Head(js)), i - 1, Tail(js))

\* the draw sequences random.shuffle can make on a list of n entries
DrawSeqs(n) ==
    {js \in [1..(n - 1) -> 1..n] : \A k \in 1..(n - 1) : js[k] <= n - k + 1}

\* every list random.shuffle can leave in x when the generator is not seeded
Shuffles(x) == {FisherYates(x, Len(x), js) : js \in DrawSeqs(Len(x))}

\* random.seed(k) for an int k, then the generator's output: the first 64 words
\* the Mersenne Twister of module random yields (genrand_uint32), each cut to
\* its 16 highest bits.  getrandbits(k) with k <= 16 reads the k highest bits
\* of the next word.
MTWords ==
    0 :> <<
        55340, 25247, 49673, 58343, 27562,  2653, 16968, 63272,
        33506, 31845, 26537, 60177, 51367, 54385, 19877, 63425,
        31234, 23465, 38232, 58435, 59514, 14315, 33075,  9127,
        18470,  9158, 49532,  6214, 40525, 52389, 16417, 64701,
        59621, 34902, 64407, 46214, 53098, 39446, 59124,  9631,
        20325,  6472, 47830,  4832, 58906, 55736, 44825, 21639,
        30942, 36687,  6599, 23186, 28453, 20722, 40035, 41970,
        59835, 13400, 63347, 36210, 31261, 29012, 56708, 34167>> @@
    1 :> <<
         8805, 37303, 55537, 52577, 50054,  4135, 16716,  7727,
        32468, 49870, 29457, 30949, 42702, 24878, 51689, 13759,
         6151, 31972,  1857, 58544, 54772, 25546, 28361, 39809,
        49956, 50276,   138, 45602, 29188, 17454, 47286, 52548,
        14992, 38741, 61949,  6699, 59075, 20803,  2004,  1462,
         1667, 42568, 35482,   603, 61548, 57752, 24982, 44989,
        14195, 63507, 27663, 47569,  1903, 34578, 14528, 50049,
        28697, 61549, 32493, 36232, 15275, 22655, 15130, 44357>> @@
    2 :> <<
        62654, 56564, 62116, 55643,  3706,  6002,  5562, 23662,
        54755, 11081, 48232, 53016, 43891, 55956, 20194, 16487,
        39711, 13907, 39767,  2341, 38089, 44646, 10379, 65517,
        28224, 41842, 25790, 52669, 47383, 56376, 65196, 33362,
        62219, 24383, 35663, 61322, 29153, 32903, 17579, 59061,
         2354, 57084,  1798, 23856, 30467, 61069, 20870, 59490,
        24904, 27761, 58444, 57938, 34455, 10779, 36733, 11628,
        15474, 15112,  1563, 11581, 21308, 11376,  8958, 33434>> @@
    3 :> <<
        15595, 38839, 35666,  8547, 24245, 60027, 39578, 31067,
        41007, 38066,  4294, 39688,   862, 59560, 54884, 30751,
        16997, 36096, 15357, 12566, 65250, 46999, 30819, 35453,
        54818, 36020, 31218, 26026, 41881, 56427,  9870, 15199,
        41606,  9936, 56888, 60675, 34287, 25554, 48578,   992,
        44001, 50936,  4196, 10446, 49691, 62750, 38738,  2804,
        19743, 51123,  2032, 53973, 56723, 17657, 30982, 38977,
        47108, 60303, 57593, 25402, 46801, 51649, 60365, 27979>> @@
    42 :> <<
        41905,  7296,  1639, 48598, 18024, 16049, 14628,  9144,
        48265,  6717, 44348, 48540, 58469, 35741,  5697, 38698,
        27651,  2082,  1952,  6140, 14328, 15247, 33118, 39453,
         1739, 36781, 13031, 46925, 42590, 45962, 35713, 27493,
        14446, 29439, 38618, 18231, 53046, 56970,   425, 49729,
        52810, 10463, 45753, 27696, 22298, 18210, 10189, 14110,
        62731, 50036, 22059,  6698,  6078, 24898,  6338, 23526,
        55541, 22541, 39565, 17335, 52895,  2847, 47823, 30108>>

\* the state of the generator: the seed it was given and the words read since
SeedState(k) == [seed |-> k, pos |-> 0]

\* n.bit_length()
RECURSIVE BitLength(_)
BitLength(n) == IF n = 0 THEN 0 ELSE 1 + BitLength(n \div 2)

\* getrandbits(k), 0 < k <= 16, in generator state s
GetRandBits(k, s) ==
    [value |-> MTWords[s.seed][s.pos + 1] \div 2^(16 - k),
     rng   |-> [s EXCEPT !.pos = @ + 1]]

\* _randbelow(n), n > 0: r = getrandbits(n.bit_length()), drawn again while
\* r >= n
RECURSIVE RandBelow(_, _)
RandBelow(n, s) ==
    LET r == GetRandBits(BitLength(n), s) IN
    IF r.value >= n THEN RandBelow(n, r.rng) ELSE r

\* the draws of random.shuffle on n entries from generator state s
RECURSIVE SeededDraws(_, _, _)
SeededDraws(i, s, js) ==
    IF i < 2 THEN [js |-> js, rng |-> s]
    ELSE LET d == RandBelow(i, s) IN
         SeededDraws(i - 1, d.rng, Append(js, d.value + 1))

\* random.shuffle(x) with the seeded generator in state s
SeededShuffle(x, s) ==
    LET d == SeededDraws(Len(x), s, <<>>) IN
    [list |-> FisherYates(x, Len(x), d.js), rng |-> d.rng]

\* tuple comparison of two (giver, receiver) pairs of str
TupleLess(a, b) ==
    \/ Rank(a[1]) < Rank(b[1])
    \/ a[1] = b[1] /\ Rank(a[2]) < Rank(b[2])

\* insert pair e into the sorted list s
RECURSIVE InsertSorted(_, _)
InsertSorted(e, s) ==
    IF s = <<>> THEN <<e>>
    ELSE IF TupleLess(e, Head(s)) THEN <<e>> \o s
    ELSE <<Head(s)>> \o InsertSorted(e, Tail(s))

\* sorted(pairs)
RECURSIVE SortPairs(_)
SortPairs(s) ==
    IF s = <<>> THEN <<>> ELSE InsertSorted(Head(s), SortPairs(Tail(s)))

\* key = tuple(sorted(m.items()))
CanonicalKey(items) == SortPairs(items)

\* the mapping a dict holds (dict equality ignores insertion order)
DictOf(items) ==
    [g \in {items[i][1] : i \in 1..Len(items)} |->
        items[CHOOSE i \in 1..Len(items) :
                 /\ items[i][1] = g
                 /\ \A j \in (i + 1)..Len(items) : items[j][1] # g][2]]

----------------------------------------------------------------------------
(* random_secret_santa_matching *)

\* givers = list(people_by_name.keys()): the order of people.json
givers == Names

\* list(all_names - {name}) for every name: the orders in which an interpreter
\* can iterate these sets of str (they depend on the hash seed of the process)
HashOrders ==
    {ho \in [AllNames -> UNION {Orderings(AllNames \ {n}) : n \in AllNames}] :
        \A n \in AllNames : Range(ho[n]) = AllNames \ {n}}

\* Faulty variant of BuildAllowedBase: an empty "allowed" list is taken as an explicit
\* list ("no one eligible") instead of falling back to everyone else.
BuildAllowedBase_EmptyIsExplicit(ppl, ho) ==
    [name \in DOMAIN ppl |->
        IF ppl[name].has
        THEN ppl[name].list
        ELSE ho[name]]

\* Faulty variant of BuildAllowedBase: the default removes another name than the
\* participant's own, so the participant is among its own targets.
BuildAllowedBase_SelfIncluded(ppl, ho) ==
    [name \in DOMAIN ppl |->
        IF ppl[name].has /\ ppl[name].list # <<>>
        THEN ppl[name].list
        ELSE [ho[name] EXCEPT ![1] = name]]

\* lines 157-164, with ho[name] = list(all_names - {name})
BuildAllowedBase(ppl, ho) ==
    [name \in DOMAIN ppl |->
        IF ppl[name].has /\ ppl[name].list # <<>>
        THEN ppl[name].list
        ELSE ho[name]]

\* lines 171-175: the shuffled copies of allowed_base (generator not seeded)
ShuffledCopies(base) ==
    {al \in [DOMAIN base -> UNION {Shuffles(base[g]) : g \in DOMAIN base}] :
        \A g \in DOMAIN base : al[g] \in Shuffles(base[g])}

\* lines 171-175 with the seeded generator in state s: for g in givers, from
\* the i-th giver on; al is the dict built so far
RECURSIVE SeededCopies(_, _, _, _)
SeededCopies(base, i, al, s) ==
    IF i > Len(givers) THEN [allowed |-> al, rng |-> s]
    ELSE LET g == givers[i]
             r == SeededShuffle(base[g], s)
         IN  SeededCopies(base, i + 1, [al EXCEPT ![g] = r.list], r.rng)

\* Faulty variant of Record: the "if key not in seen" test is missing.
Record_NoSeenTest(r, ms, sn) ==
    IF r.ok
    THEN [matchings |-> Append(ms, DictOf(r.items)),
          seen |-> sn \cup {CanonicalKey(r.items)}]
    ELSE [matchings |-> ms, seen |-> sn]

\* lines 182-186: the candidate list and the seen set after a solver return r
Record(r, ms, sn) ==
    IF r.ok
    THEN LET key == CanonicalKey(r.items) IN
         IF key \notin sn
         THEN [matchings |-> Append(ms, DictOf(r.items)), seen |-> sn \cup {key}]
         ELSE [matchings |-> ms, seen |-> sn]
    ELSE [matchings |-> ms, seen |-> sn]

\* Faulty variant of LoopGoesOn: the "if STOP_ON_FIRST: break" is missing.
LoopGoesOn_NoBreak(r, n, reps, stop) == n < reps

\* lines 169, 187-188: is there another iteration after this one?
\* n is the number of iterations made so far, this one included.
LoopGoesOn(r, n, reps, stop) ==
    IF r.ok /\ stop THEN FALSE ELSE n < reps

NoMatchingMsg == "No perfect matching found under the current constraints."

\* lines 190-193, with i the index random.choice draws
FinalOutcome(ms, i) ==
    IF ms = <<>>
    THEN [kind |-> "ValueError", msg |-> NoMatchingMsg, value |-> EmptyDict]
    ELSE [kind |-> "return", msg |-> "", value |-> ms[i]]

\* lines 190-193 with the seeded generator in state s
SeededFinal(ms, s) ==
    IF ms = <<>> THEN FinalOutcome(ms, 1)
    ELSE FinalOutcome(ms, RandBelow(Len(ms), s).value + 1)

\* lines 169-193 with the seeded generator: the iterations after the n-th, then
\* the final pick
RECURSIVE SeededLoop(_, _, _, _, _, _, _)
SeededLoop(base, n, reps, stop, s, ms, sn) ==
    IF n >= reps
    THEN SeededFinal(ms, s)
    ELSE LET c   == SeededCopies(base, 1, base, s)
             o   == SeededShuffle(givers, c.rng)
             r   == hopcroft_karp_bipartite_matching(c.allowed, o.list)
             rec == Record(r, ms, sn)
         IN  IF LoopGoesOn(r, n + 1, reps, stop)
             THEN SeededLoop(base, n + 1, reps, stop, o.rng,
                             rec.matchings, rec.seen)
             ELSE SeededFinal(rec.matchings, o.rng)

\* random_secret_santa_matching with RANDOM_SEED = seed, in an interpreter
\* whose set iteration orders are ho
SeededCall(ppl, ho, seed, reps, stop) ==
    LET base == BuildAllowedBase(ppl, ho) IN
    [base |-> base,
     outcome |-> SeededLoop(base, 0, reps, stop, SeedState(seed), <<>>, {})]

NoResult == [ok |-> FALSE, dict |-> EmptyDict]
NoOutcome == [kind |-> "running", msg |-> "", value |-> EmptyDict]

----------------------------------------------------------------------------
(* Inputs *)

\* The "allowed" fields of the calls explored by Spec and SpecSeed: absent,
\* empty, every ordering of every set of names, and every name listed twice.
EngineFields ==
    {absent} \cup
    {[has |-> TRUE, list |-> l] :
        l \in UNION {Orderings(S) : S \in SUBSET AllNames}
              \cup {<<x, x>> : x \in AllNames}}

\* the people_by_name values validate_people hands to the matching
ValidatedPeople == {p \in [AllNames -> EngineFields] : validate_people(p)}

\* The eligibility lists of the solver calls explored by SpecHK: every ordering
\* of every set of names (empty, and the giver itself, included) and every
\* name listed twice.
SolverLists ==
    UNION {Orderings(S) : S \in SUBSET AllNames} \cup {<<x, x>> : x \in AllNames}

\* shipped values of the knobs
DefaultRepetitions == 50
DefaultStopOnFirst == TRUE

EngineIdle ==
    /\ people = EmptyDict /\ NUM_REPETITIONS = 0 /\ STOP_ON_FIRST = FALSE
    /\ RANDOM_SEED = NIL /\ pc = "idle" /\ allowed_base = EmptyDict
    /\ attempt = 0 /\ matchings = <<>> /\ seen = {} /\ outcome = NoOutcome
    /\ calls = 0
HKIdle ==
    /\ allowed = EmptyDict /\ U_order = <<>> /\ hk_pc = "idle"
    /\ pair_U = EmptyDict /\ pair_V = EmptyDict /\ dist = EmptyDict
    /\ matching = 0 /\ phases = 0
SeedIdle == out = <<>>

----------------------------------------------------------------------------
(* Spec: one call of random_secret_santa_matching, generator not seeded *)

Init ==
    /\ people \in ValidatedPeople
    /\ NUM_REPETITIONS \in -1..MaxReps
    /\ STOP_ON_FIRST \in BOOLEAN
    /\ RANDOM_SEED = NIL
    /\ pc = "start"
    /\ allowed_base = EmptyDict
    /\ attempt = 0
    /\ m = NoResult
    /\ matchings = <<>>
    /\ seen = {}
    /\ outcome = NoOutcome
    /\ calls = 0
    /\ HKIdle /\ SeedIdle

\* main(), line 234: validate_people raises or returns people_by_name
Validate ==
    /\ pc = "validate"
    /\ IF validate_people(people)
       THEN pc' = "start" /\ outcome' = outcome
       ELSE /\ pc' = "done"
            /\ outcome' = [kind |-> "ValueError", msg |-> "validate_people",
                           value |-> EmptyDict]
    /\ UNCHANGED <<people, NUM_REPETITIONS, STOP_ON_FIRST, RANDOM_SEED,
                   allowed_base, attempt, m, matchings, seen, calls>>
    /\ UNCHANGED <<hkVars, seedVars>>

\* lines 150-167: build allowed_base; matchings = [], seen = set()
Start ==
    /\ pc = "start"
    /\ \E ho \in HashOrders : allowed_base' = BuildAllowedBase(people, ho)
    /\ matchings' = <<>>
    /\ seen' = {}
    /\ pc' = IF 0 < NUM_REPETITIONS THEN "loop" ELSE "after"
    /\ UNCHANGED <<people, NUM_REPETITIONS, STOP_ON_FIRST, RANDOM_SEED, attempt,
                   m, outcome, calls>>
    /\ UNCHANGED <<hkVars, seedVars>>

\* lines 169-188: one iteration of the for loop: shuffle the copies and the
\* giver order, call the solver, record its result, break or go on
Attempt ==
    /\ pc = "loop"
    /\ \E r \in {hopcroft_karp_bipartite_matching(al, uo) :
                    al \in ShuffledCopies(allowed_base), uo \in Shuffles(givers)} :
        LET rec == Record(r, matchings, seen)
        IN  /\ m' = [ok |-> r.ok, dict |-> DictOf(r.items)]
            /\ calls' = calls + 1
            /\ attempt' = attempt + 1
            /\ matchings' = rec.matchings
            /\ seen' = rec.seen
            /\ pc' = IF LoopGoesOn(r, attempt + 1, NUM_REPETITIONS, STOP_ON_FIRST)
                     THEN "loop" ELSE "after"
    /\ UNCHANGED <<people, NUM_REPETITIONS, STOP_ON_FIRST, RANDOM_SEED,
                   allowed_base, outcome>>
    /\ UNCHANGED <<hkVars, seedVars>>

\* lines 190-193: raise, or return random.choice(matchings)
Finish ==
    /\ pc = "after"
    /\ \E i \in 1..(IF matchings = <<>> THEN 1 ELSE Len(matchings)) :
        outcome' = FinalOutcome(matchings, i)
    /\ pc' = "done"
    /\ UNCHANGED <<people, NUM_REPETITIONS, STOP_ON_FIRST, RANDOM_SEED,
                   allowed_base, attempt, m, matchings, seen, calls>>
    /\ UNCHANGED <<hkVars, seedVars>>

Next == Start \/ Attempt \/ Finish

Spec == Init /\ [][Next]_vars

----------------------------------------------------------------------------
(* SpecBuild: people.json as loaded -> validate_people -> allowed_base *)

InitBuild ==
    /\ people \in [AllNames -> AllowField]
    /\ NUM_REPETITIONS = DefaultRepetitions
    /\ STOP_ON_FIRST = DefaultStopOnFirst
    /\ RANDOM_SEED = NIL
    /\ pc = "validate"
    /\ allowed_base = EmptyDict
    /\ attempt = 0
    /\ m = NoResult
    /\ matchings = <<>>
    /\ seen = {}
    /\ outcome = NoOutcome
    /\ calls = 0
    /\ HKIdle /\ SeedIdle

NextBuild == Validate \/ Start

SpecBuild == InitBuild /\ [][NextBuild]_vars

----------------------------------------------------------------------------
(* SpecHK: one call of hopcroft_karp_bipartite_matching *)

InitHK ==
    /\ allowed \in [AllNames -> SolverLists]
    /\ U_order \in Orderings(AllNames)
    /\ hk_pc = "bfs"
    /\ pair_U = InitPairU(U_order)
    /\ pair_V = InitPairV(allowed)
    /\ dist = EmptyDict
    /\ matching = 0
    /\ phases = 0
    /\ m = NoResult
    /\ EngineIdle /\ SeedIdle

\* "while bfs():" - one layering phase; when it returns False, lines 134-137
HKBfs ==
    /\ hk_pc = "bfs"
    /\ LET d == bfs(allowed, U_order, pair_U, pair_V) IN
       /\ dist' = d
       /\ IF d[NIL] # INF
          THEN /\ hk_pc' = "augment"
               /\ phases' = phases + 1
               /\ m' = m
          ELSE /\ hk_pc' = "done"
               /\ phases' = phases
               /\ m' = LET r == HKReturn(U_order, [pair_U |-> pair_U,
                                                    matching |-> matching])
                       IN  [ok |-> r.ok, dict |-> DictOf(r.items)]
    /\ UNCHANGED <<allowed, U_order, pair_U, pair_V, matching>>
    /\ UNCHANGED <<people, NUM_REPETITIONS, STOP_ON_FIRST, RANDOM_SEED, pc,
                   allowed_base, attempt, matchings, seen, outcome, calls>>
    /\ UNCHANGED seedVars

\* lines 129-132: the augmentation phase, one dfs per unmatched giver
HKAugment ==
    /\ hk_pc = "augment"
    /\ LET st == Augment(allowed, U_order, 1,
                         [pair_U |-> pair_U, pair_V |-> pair_V, dist |-> dist,
                          matching |-> matching])
       IN  /\ pair_U' = st.pair_U
           /\ pair_V' = st.pair_V
           /\ dist' = st.dist
           /\ matching' = st.matching
    /\ hk_pc' = "bfs"
    /\ UNCHANGED <<allowed, U_order, phases>>
    /\ UNCHANGED engineVars
    /\ UNCHANGED seedVars

NextHK == HKBfs \/ HKAugment

SpecHK == InitHK /\ [][NextHK]_vars

----------------------------------------------------------------------------
(* SpecSeed: two calls on the same input with the same RANDOM_SEED *)

InitSeed ==
    /\ people \in ValidatedPeople
    /\ NUM_REPETITIONS \in -1..MaxReps
    /\ STOP_ON_FIRST \in BOOLEAN
    /\ RANDOM_SEED \in 0..MaxSeed
    /\ pc = "idle"
    /\ allowed_base = EmptyDict
    /\ attempt = 0
    /\ m = NoResult
    /\ matchings = <<>>
    /\ seen = {}
    /\ outcome = NoOutcome
    /\ calls = 0
    /\ out = <<>>
    /\ HKIdle

\* one whole call of random_secret_santa_matching, in an interpreter process
\* of its own (script run) or in the process of the previous call
SeedCall ==
    /\ Len(out) < 2
    /\ \E ho \in HashOrders :
        out' = Append(out, SeededCall(people, ho, RANDOM_SEED, NUM_REPETITIONS,
                                      STOP_ON_FIRST))
    /\ UNCHANGED engineVars
    /\ UNCHANGED hkVars

NextSeed == SeedCall

SpecSeed == InitSeed /\ [][NextSeed]_vars

----------------------------------------------------------------------------
(* Properties *)

\* g's eligible targets as the constraint builder is specified: the explicit
\* allow-list when it is non-empty, everyone except g otherwise
EligibleTargets(g) ==
    IF people[g].has /\ people[g].list # <<>>
    THEN Range(people[g].list)
    ELSE AllNames \ {g}

\* d maps every participant to a participant, and every participant is the
\* image of exactly one
IsBijection(d) ==
    /\ DOMAIN d = AllNames
    /\ \A g \in AllNames : d[g] \in AllNames
    /\ \A p \in AllNames : Cardinality({g \in AllNames : d[g] = p}) = 1

\* C1: a returned result is a bijection over the participant set: every
\* participant is a key, every key maps to a participant (never to None), and
\* every participant is the value of exactly one key.
C1_ResultIsBijection ==
    outcome.kind = "return" => IsBijection(outcome.value)

\* C1 witness: a call with a constrained and an unconstrained participant
\* has returned a result.
C1_Witness ==
    /\ pc = "done" /\ outcome.kind = "return"
    /\ \E g \in AllNames : people[g].has /\ Len(people[g].list) = 1
    /\ \E g \in AllNames : ~people[g].has

\* C2: in a returned result every giver's receiver is one of the giver's
\* eligible targets (the explicit allow-list, or everyone except the giver),
\* and is never the giver.
C2_ResultIsEligible ==
    outcome.kind = "return" =>
        \A g \in AllNames :
            /\ g \in DOMAIN outcome.value
            /\ outcome.value[g] \in EligibleTargets(g)
            /\ outcome.value[g] # g

\* C2 witness: a result was returned where one giver has an explicit list of
\* two different names and another has the default.
C2_Witness ==
    /\ pc = "done" /\ outcome.kind = "return"
    /\ \E g \in AllNames :
          /\ people[g].has /\ Len(people[g].list) = 2
          /\ people[g].list[1] # people[g].list[2]
    /\ \E g \in AllNames : people[g].has /\ people[g].list = <<>>

\* there is a matching of the graph giver -> eligible receivers that covers
\* every giver
PerfectMatchingExists(alw) ==
    \E f \in [DOMAIN alw -> AllNames] :
        /\ \A g \in DOMAIN alw : f[g] \in Range(alw[g])
        /\ \A g, h \in DOMAIN alw : g # h => f[g] # f[h]

\* C3: the solver returns a matching exactly when the graph admits one that
\* covers every giver, and what it returns is such a matching; otherwise it
\* returns None.  In particular A:[B], B:[A], C:[A] yields None for every
\* giver ordering.
C3_SolverFindsMatchingIffOneExists ==
    hk_pc = "done" =>
        /\ m.ok <=> PerfectMatchingExists(allowed)
        /\ m.ok => /\ DOMAIN m.dict = DOMAIN allowed
                   /\ \A g \in DOMAIN allowed : m.dict[g] \in Range(allowed[g])
                   /\ \A g, h \in DOMAIN allowed : g # h => m.dict[g] # m.dict[h]
        /\ ~m.ok => m.dict = EmptyDict
        /\ (allowed = [g \in AllNames |-> IF g = "A" THEN <<"B">> ELSE <<"A">>])
              => ~m.ok

\* C3 witness: the solver returned a matching that it could only reach by
\* re-routing an earlier match in a second layering phase.
C3_Witness == hk_pc = "done" /\ m.ok /\ phases = 2

\* C4: the solver is invoked at most NUM_REPETITIONS times, once per
\* iteration, and with STOP_ON_FIRST set nothing is shuffled or solved after
\* the first successful solver call.
C4_BudgetAndStopOnFirst ==
    [][/\ calls' <= (IF NUM_REPETITIONS > 0 THEN NUM_REPETITIONS ELSE 0)
       /\ attempt' = calls'
       /\ (STOP_ON_FIRST /\ m.ok) => (calls' = calls /\ attempt' = attempt)]_vars

\* C4 witness: with STOP_ON_FIRST and a budget of two, the call ended after
\* one, successful, solver invocation.
C4_Witness ==
    /\ pc = "done" /\ STOP_ON_FIRST /\ NUM_REPETITIONS = 2
    /\ calls = 1 /\ m.ok

\* C5: two calls on the same participants with the same seed, budget and
\* stop-on-first setting have the same outcome: both raise, or both return the
\* same mapping.
C5_SameSeedSameOutcome ==
    Len(out) = 2 => out[1].outcome = out[2].outcome

\* Two seeded calls that built the same allowed_base (as two calls in one
\* interpreter process do) have the same outcome.
SameBaseSameOutcome ==
    (Len(out) = 2 /\ out[1].base = out[2].base) => out[1].outcome = out[2].outcome

\* C6: constraint building maps a participant with a non-empty explicit
\* allow-list to exactly that list, and a participant without an "allowed"
\* field, or with an empty one, to every participant except itself, each
\* listed once.
C6_ConstraintBuilding ==
    pc = "loop" =>
        /\ DOMAIN allowed_base = AllNames
        /\ \A name \in AllNames :
              IF people[name].has /\ people[name].list # <<>>
              THEN allowed_base[name] = people[name].list
              ELSE /\ Range(allowed_base[name]) = AllNames \ {name}
                   /\ Len(allowed_base[name]) = Cardinality(AllNames) - 1

\* C6 witness: allowed_base was built for a participant with an empty list,
\* one with no "allowed" field and one with an explicit list of two.
C6_Witness ==
    /\ pc = "loop"
    /\ \E a, b, c \in AllNames :
          /\ people[a].has /\ people[a].list = <<>>
          /\ ~people[b].has
          /\ people[c].has /\ Len(people[c].list) = 2

\* every key is a participant; every list holds only participants other than
\* its key, none of them twice
WellFormedEligibility(al) ==
    /\ DOMAIN al = AllNames
    /\ \A g \in AllNames :
          /\ \A i \in 1..Len(al[g]) : al[g][i] \in AllNames \ {g}
          /\ \A i, j \in 1..Len(al[g]) : i # j => al[g][i] # al[g][j]

\* C7: for every collection validate_people accepts, the eligibility map
\* built for the search and every shuffled copy handed to the solver have
\* participants as keys and lists that hold only participants other than the
\* key, no value listed twice.
C7_EligibilityListsDistinct ==
    pc = "loop" =>
        /\ WellFormedEligibility(allowed_base)
        /\ \A al \in ShuffledCopies(allowed_base) : WellFormedEligibility(al)

\* C8: a call with NUM_REPETITIONS <= 0 shuffles nothing, never invokes the
\* solver, returns no matching, and ends with a misconfiguration rejection,
\* not with the "no perfect matching found" failure.
C8_NonPositiveBudgetRejected ==
    (NUM_REPETITIONS <= 0 /\ pc = "done") =>
        /\ calls = 0 /\ attempt = 0
        /\ outcome.kind # "return"
        /\ outcome.msg # NoMatchingMsg

\* steps the outer loop can still take: three per giver still unmatched, plus
\* the position within the iteration
StepsLeft ==
    3 * (Cardinality(DOMAIN allowed) - matching)
    + (IF hk_pc = "bfs" THEN 2 ELSE IF hk_pc = "augment" THEN 1 ELSE 0)

\* C9: every solver call terminates: an augmentation phase entered after a
\* successful layering phase raises the matching size by at least one, a
\* matched giver never becomes unmatched, there are never more successful
\* layering phases than givers, and every step of the outer loop lowers a
\* measure that is never negative, so the loop ends.
C9_SolverTerminates ==
    [][/\ hk_pc = "augment" => matching' >= matching + 1
       /\ \A u \in DOMAIN pair_U : pair_U[u] # NIL => pair_U'[u] # NIL
       /\ phases' <= Cardinality(DOMAIN allowed)
       /\ StepsLeft' < StepsLeft
       /\ StepsLeft' >= 0]_vars

\* C9 witness: a call on a map with an empty list and a self-entry has
\* returned after two successful layering phases.
C9_Witness ==
    /\ hk_pc = "done" /\ phases = 2
    /\ \E g \in AllNames : allowed[g] = <<>>
    /\ \E g \in AllNames : g \in Range(allowed[g])

\* the canonical key of a stored candidate
KeyOf(d) == CanonicalKey(Items(d, givers))

\* C10: the candidate list holds pairwise distinct perfect matchings, one per
\* key of the seen set; the call raises exactly when the list is empty and
\* otherwise returns one of the candidates.
C10_CandidatesDistinct ==
    /\ \A i, j \in 1..Len(matchings) : i # j => matchings[i] # matchings[j]
    /\ \A i \in 1..Len(matchings) :
          /\ IsBijection(matchings[i])
          /\ \A g \in AllNames : matchings[i][g] \in Range(allowed_base[g])
    /\ seen = {KeyOf(matchings[i]) : i \in 1..Len(matchings)}
    /\ Cardinality(seen) = Len(matchings)
    /\ pc = "done" =>
          /\ outcome.kind = "ValueError" <=> matchings = <<>>
          /\ outcome.kind = "return" <=> matchings # <<>>
          /\ outcome.kind = "return" => outcome.value \in Range(matchings)

\* C10 witness: without stop-on-first the second attempt found the matching
\* of the first again, and the call returned the single candidate.
C10_Witness ==
    /\ pc = "done" /\ ~STOP_ON_FIRST /\ calls = 2
    /\ \A g \in AllNames : ~people[g].has
    /\ Len(matchings) = 1
    /\ outcome.kind = "return"

====
